---- MODULE Spec2Model ----
(***************************************************************************)
(* Model of torecsys: the attentional factorization machine layer and      *)
(* model, the StackedInputs schema dispatcher, the bilinear layer's        *)
(* constructor and the Trainer.  Tensors are modelled by their shape and   *)
(* dimension names; a Python exception is a value of kind "error".         *)
(***************************************************************************)
EXTENDS Integers, Sequences, FiniteSets, TLC

VARIABLES
    afm,          \* AttentionalFactorizationMachineLayer / Model object and its constructor arguments
    afm_ret,      \* value returned (or exception raised) by the last AFM layer forward
    model_ret,    \* value returned (or exception raised) by the last AFM model forward
    stacked,      \* StackedInputs object and the schema handed to its constructor
    stacked_ret,  \* the last StackedInputs call (__getitem__ or forward) and its result
    bilinear,     \* BilinearNetworkLayer object and its constructor arguments
    trainer,      \* Trainer object: configuration, logger, writer, optimizer state
    iter,         \* position and trace of the running Trainer._iterate call
    fit           \* state of the last Trainer.fit call

vars == <<afm, afm_ret, model_ret, stacked, stacked_ret, bilinear, trainer, iter, fit>>

afmVars == <<afm, afm_ret, model_ret>>
stackedVars == <<stacked, stacked_ret>>
trainerVars == <<trainer, iter, fit>>

\* the components an operation of one component leaves alone
AFMOnly == UNCHANGED <<stackedVars, bilinear, trainerVars>>
StackedOnly == UNCHANGED <<afmVars, bilinear, trainerVars>>
BilinearOnly == UNCHANGED <<afmVars, stackedVars, trainerVars>>
TrainerOnly == UNCHANGED <<afmVars, stackedVars, bilinear>>

-----------------------------------------------------------------------------
(* Bounds of the model *)

MaxFields == 5
MaxEmbed == 5
MaxAttn == 2
MaxBatch == 3

-----------------------------------------------------------------------------
(* Python / torch values *)

\* an optional integer: None, or a one-element sequence holding the value
None == <<>>
Some(v) == <<v>>
IsNone(x) == x = <<>>
Val(x) == x[1]

NoNames == <<>>

Tensor(shape) == [kind |-> "tensor", shape |-> shape, names |-> NoNames,
                  second |-> <<>>, exc |-> "none"]

NamedTensor(shape, names) == [kind |-> "tensor", shape |-> shape, names |-> names,
                              second |-> <<>>, exc |-> "none"]

\* a Python 2-tuple of tensors: first element's shape in shape, second's in second
Tuple2(a, b) == [kind |-> "tuple", shape |-> a.shape, names |-> NoNames,
                 second |-> b.shape, exc |-> "none"]

Raise(e) == [kind |-> "error", shape |-> <<>>, names |-> NoNames,
             second |-> <<>>, exc |-> e]

NoValue == [kind |-> "none", shape |-> <<>>, names |-> NoNames,
            second |-> <<>>, exc |-> "none"]

IsTensor(v) == v.kind = "tensor"
IsError(v) == v.kind = "error"

\* the first error among the operands, else the result
Lift1(a, r) == IF IsError(a) THEN a ELSE r
Lift2(a, b, r) == IF IsError(a) THEN a ELSE IF IsError(b) THEN b ELSE r

RECURSIVE SumSeq(_)
SumSeq(s) == IF s = <<>> THEN 0 ELSE Head(s) + SumSeq(Tail(s))

\* emb_inputs[:, idx] with idx a list of integer positions
IndexDim1(t, idx) ==
    Lift1(t,
      IF \E k \in 1..Len(idx) : idx[k] >= t.shape[2]
      THEN Raise("IndexError")
      ELSE Tensor([t.shape EXCEPT ![2] = Len(idx)]))

\* elementwise product of two tensors of the same rank, with broadcasting
TMul(a, b) ==
    Lift2(a, b,
      IF Len(a.shape) # Len(b.shape)
         \/ \E d \in 1..Len(a.shape) :
               a.shape[d] # b.shape[d] /\ a.shape[d] # 1 /\ b.shape[d] # 1
      THEN Raise("RuntimeError")
      ELSE Tensor([d \in 1..Len(a.shape) |->
                     IF a.shape[d] = 1 THEN b.shape[d] ELSE a.shape[d]]))

\* nn.Linear(inp, out) applied to the last dimension
Linear(inp, out, t) ==
    Lift1(t,
      IF t.shape[Len(t.shape)] # inp
      THEN Raise("RuntimeError")
      ELSE Tensor([t.shape EXCEPT ![Len(t.shape)] = out]))

\* ReLU, Softmax and Dropout keep the shape
SameShape(t) == t

\* x.sum(dim=dim), dim counted from 0; a tuple has no attribute sum
TSum(t, dim) ==
    Lift1(t,
      IF t.kind = "tuple" THEN Raise("AttributeError")
      ELSE IF dim + 1 > Len(t.shape) THEN Raise("IndexError")
      ELSE Tensor([d \in 1..(Len(t.shape) - 1) |->
                     IF d < dim + 1 THEN t.shape[d] ELSE t.shape[d + 1]]))

\* x.unsqueeze(dim), dim counted from 0
Unsqueeze(t, dim) ==
    Lift1(t,
      Tensor([d \in 1..(Len(t.shape) + 1) |->
                 IF d < dim + 1 THEN t.shape[d]
                 ELSE IF d = dim + 1 THEN 1 ELSE t.shape[d - 1]]))

\* a + b with broadcasting from the right
TAdd(a, b) ==
    Lift2(a, b,
      LET ra == Len(a.shape)
          rb == Len(b.shape)
          r  == IF ra > rb THEN ra ELSE rb
          da(d) == IF d > r - ra THEN a.shape[d - (r - ra)] ELSE 1
          db(d) == IF d > r - rb THEN b.shape[d - (r - rb)] ELSE 1
      IN  IF \E d \in 1..r : da(d) # db(d) /\ da(d) # 1 /\ db(d) # 1
          THEN Raise("RuntimeError")
          ELSE Tensor([d \in 1..r |-> IF da(d) = 1 THEN db(d) ELSE da(d)]))

-----------------------------------------------------------------------------
(* AttentionalFactorizationMachineLayer *)

\* first value of the inner loop variable j for outer value i
InnerStart_FromI(i) == i

InnerStart(i) == i + 1

\* the nested loops that append to row_idx and col_idx
RECURSIVE PairLoop(_, _, _, _)
PairLoop(i, j, n, acc) ==
    IF i >= n - 1 THEN acc
    ELSE IF j >= n THEN PairLoop(i + 1, InnerStart(i + 1), n, acc)
    ELSE PairLoop(i, j + 1, n,
                  [row_idx |-> Append(acc.row_idx, i), col_idx |-> Append(acc.col_idx, j)])

PairIdx(n) == PairLoop(0, InnerStart(0), n, [row_idx |-> <<>>, col_idx |-> <<>>])

AFMArgs == [embed_size : 1..MaxEmbed, num_fields : 1..MaxFields, attn_size : 1..MaxAttn]

AFMNew(args) ==
    [pc |-> "new", owner |-> "none", embed_size |-> args.embed_size,
     num_fields |-> args.num_fields, attn_size |-> args.attn_size,
     row_idx |-> <<>>, col_idx |-> <<>>]

\* the attention Sequential: linear1, activation1, out_proj, softmax1, dropout1
Attention(layer, t) ==
    SameShape(SameShape(
        Linear(layer.attn_size, 1,
               SameShape(Linear(layer.embed_size, layer.attn_size, t)))))

\* outputs = torch.sum(attn_scores * inner, dim=1) summing over another dimension
WeightedSum_Dim0(attn_scores, inner) == TSum(TMul(attn_scores, inner), 0)

WeightedSum(attn_scores, inner) == TSum(TMul(attn_scores, inner), 1)

AFMLayerForward(layer, emb_inputs) ==
    LET inner       == TMul(IndexDim1(emb_inputs, layer.row_idx),
                            IndexDim1(emb_inputs, layer.col_idx))
        attn_scores == Attention(layer, inner)
        outputs     == SameShape(WeightedSum(attn_scores, inner))
        pooled      == Unsqueeze(outputs, 1)
    IN  Lift2(pooled, attn_scores, Tuple2(pooled, attn_scores))

\* AttentionalFactorizationMachineModel.forward on first_order, second_order
AFMModelForwardWith(layer, first_order, second_order) ==
    LET linear_out == TSum(first_order, 1)
        afm_out    == TSum(AFMLayerForward(layer, second_order), 2)
        bias       == Tensor(<<1>>)
    IN  Lift2(linear_out, afm_out, TAdd(TAdd(bias, linear_out), afm_out))

InputShapes == {<<b, n, e>> : b \in 1..MaxBatch, n \in 1..MaxFields, e \in 1..MaxEmbed}

AFMLayerInit ==
    /\ afm.pc = "new"
    /\ afm' = [afm EXCEPT !.pc = "ready", !.owner = "layer",
                          !.row_idx = PairIdx(afm.num_fields).row_idx,
                          !.col_idx = PairIdx(afm.num_fields).col_idx]
    /\ UNCHANGED <<afm_ret, model_ret>>
    /\ AFMOnly

AFMModelInit ==
    /\ afm.pc = "new"
    /\ afm' = [afm EXCEPT !.pc = "ready", !.owner = "model",
                          !.row_idx = PairIdx(afm.num_fields).row_idx,
                          !.col_idx = PairIdx(afm.num_fields).col_idx]
    /\ UNCHANGED <<afm_ret, model_ret>>
    /\ AFMOnly

AFMLayerForwardCall ==
    /\ afm.pc = "ready"
    /\ afm.owner = "layer"
    /\ \E s \in InputShapes :
          afm_ret' = [in |-> s, out |-> AFMLayerForward(afm, Tensor(s))]
    /\ UNCHANGED <<afm, model_ret>>
    /\ AFMOnly

AFMModelForwardCall ==
    /\ afm.pc = "ready"
    /\ afm.owner = "model"
    /\ \E s \in InputShapes :
          model_ret' = [in |-> s,
                        out |-> AFMModelForwardWith(afm, Tensor(<<s[1], s[2], 1>>), Tensor(s))]
    /\ UNCHANGED <<afm, afm_ret>>
    /\ AFMOnly

NoCall == [in |-> <<>>, out |-> NoValue]

-----------------------------------------------------------------------------
(* StackedInputs *)

MaxSchema == 2
MaxIdx == 2

FieldNames == {"userId", "movieId", "seqLen"}

\* schema tuples (embedding module, field names[, extra argument names]); the module
\* is given by its identity, class name and embedding width len(module)
SchemaEntries ==
    { [module |-> 1, cls |-> "SingleIndexEmbedding", length |-> 4,
       names |-> <<"userId">>, extra |-> <<>>],
      [module |-> 2, cls |-> "SingleIndexEmbedding", length |-> 4,
       names |-> <<"movieId">>, extra |-> <<>>],
      [module |-> 2, cls |-> "SingleIndexEmbedding", length |-> 4,
       names |-> <<"userId", "movieId">>, extra |-> <<>>],
      [module |-> 3, cls |-> "SingleIndexEmbedding", length |-> 2,
       names |-> <<"movieId">>, extra |-> <<>>],
      [module |-> 4, cls |-> "ConcatInputs", length |-> 4,
       names |-> <<"userId", "movieId">>, extra |-> <<>>],
      [module |-> 5, cls |-> "SequenceIndicesEmbedding", length |-> 4,
       names |-> <<"movieId">>, extra |-> <<"seqLen">>] }

Schemas == UNION { [1..n -> SchemaEntries] : n \in 0..MaxSchema }

Range(s) == { s[k] : k \in 1..Len(s) }

\* modules of a sequence of schema entries: [tup[0] for tup in entries]
RECURSIVE ModulesOf(_)
ModulesOf(entries) ==
    IF entries = <<>> THEN <<>> ELSE <<Head(entries).module>> \o ModulesOf(Tail(entries))

\* all(len(tup[0]) == self.length for tup in schema), weakened to any(...)
SameLength_Any(schema, length) == \E k \in 1..Len(schema) : schema[k].length = length

SameLength(schema, length) == \A k \in 1..Len(schema) : schema[k].length = length

StackedNew(schema) ==
    [pc |-> "new", arg |-> schema, length |-> None, schema |-> <<>>,
     modules |-> <<>>, exc |-> "none"]

\* StackedInputs.__init__
StackedConstructed(s) ==
    IF s.arg = <<>>
    THEN [s EXCEPT !.pc = "raised", !.exc = "IndexError"]
    ELSE LET length == s.arg[1].length
         IN  IF ~SameLength(s.arg, length)
             THEN [s EXCEPT !.pc = "raised", !.exc = "ValueError", !.length = Some(length)]
             ELSE [s EXCEPT !.pc = "ready", !.length = Some(length), !.schema = s.arg,
                            !.modules = ModulesOf(s.arg)]

StackedInit ==
    /\ stacked.pc = "new"
    /\ stacked' = StackedConstructed(stacked)
    /\ UNCHANGED stacked_ret
    /\ StackedOnly

\* seq[i] of a Python list, i counted from 0, negative i counted from the end
PyIndexOk(seq, i) == -Len(seq) <= i /\ i < Len(seq)
PyIndex(seq, i) == IF i >= 0 THEN seq[i + 1] ELSE seq[Len(seq) + i + 1]

\* list(range(start, stop, step)), step # 0
RECURSIVE PyRange(_, _, _)
PyRange(start, stop, step) ==
    IF (step > 0 /\ start >= stop) \/ (step < 0 /\ start <= stop)
    THEN <<>>
    ELSE <<start>> \o PyRange(start + step, stop, step)

OptInts == {None} \cup { Some(v) : v \in (-MaxIdx)..MaxIdx }

Indices ==
    { [type |-> "int", int |-> i, start |-> None, stop |-> None, step |-> None, str |-> ""]
        : i \in (-MaxIdx - 1)..MaxIdx }
    \cup
    { [type |-> "slice", int |-> 0, start |-> a, stop |-> b, step |-> c, str |-> ""]
        : a \in OptInts, b \in OptInts, c \in OptInts }
    \cup
    { [type |-> "str", int |-> 0, start |-> None, stop |-> None, step |-> None, str |-> f]
        : f \in FieldNames \cup {"itemId"} }
    \cup
    { [type |-> "float", int |-> 0, start |-> None, stop |-> None, step |-> None, str |-> ""] }

GetRet(kind, mods, exc) == [kind |-> kind, mods |-> mods, exc |-> exc]

\* the isinstance(idx, str) branch filtering on another condition
ByName_First(schema, name) ==
    ModulesOf(SelectSeq(schema, LAMBDA e : e.names[1] = name))

ByName(schema, name) ==
    ModulesOf(SelectSeq(schema, LAMBDA e : name \in Range(e.names)))

\* StackedInputs.__getitem__
GetItem(schema, idx) ==
    IF idx.type = "int"
    THEN IF PyIndexOk(schema, idx.int)
         THEN GetRet("module", <<PyIndex(schema, idx.int).module>>, "none")
         ELSE GetRet("error", <<>>, "IndexError")
    ELSE IF idx.type = "slice"
    THEN LET start == IF ~IsNone(idx.start) THEN Val(idx.start) ELSE 0
             stop  == IF ~IsNone(idx.stop) THEN Val(idx.stop) ELSE Len(schema)
             step  == IF ~IsNone(idx.step) THEN Val(idx.step) ELSE 1
         IN  IF step = 0
             THEN GetRet("error", <<>>, "ValueError")
             ELSE LET r == PyRange(start, stop, step)
                  IN  IF \E k \in 1..Len(r) : ~PyIndexOk(schema, r[k])
                      THEN GetRet("error", <<>>, "IndexError")
                      ELSE GetRet("list",
                                  [k \in 1..Len(r) |-> PyIndex(schema, r[k]).module],
                                  "none")
    ELSE IF idx.type = "str"
    THEN GetRet("list", ByName(schema, idx.str), "none")
    ELSE GetRet("error", <<>>, "ValueError")

\* a call of __getitem__ on the constructed object; one call is observed per object,
\* and a call leaves the object as it was
StackedGetItem ==
    /\ stacked.pc = "ready"
    /\ stacked_ret.op = "none"
    /\ \E idx \in Indices :
          stacked_ret' = [op |-> "getitem", idx |-> idx, out |-> GetItem(stacked.schema, idx)]
    /\ UNCHANGED stacked
    /\ StackedOnly

\* position of a dimension name in a tensor's names
DimOf(names, dim) == CHOOSE d \in 1..Len(names) : names[d] = dim

\* torch.cat(tensors, dim=<dimension name>)
Cat(ts, dim) ==
    IF ts = <<>> THEN Raise("RuntimeError")
    ELSE IF \E k \in 1..Len(ts) : dim \notin Range(ts[k].names) THEN Raise("RuntimeError")
    ELSE LET d == DimOf(ts[1].names, dim)
         IN  IF \E k \in 1..Len(ts) :
                    \/ ts[k].names # ts[1].names
                    \/ \E e \in 1..Len(ts[1].shape) : e # d /\ ts[k].shape[e] # ts[1].shape[e]
             THEN Raise("RuntimeError")
             ELSE NamedTensor([ts[1].shape EXCEPT
                                  ![d] = SumSeq([k \in 1..Len(ts) |-> ts[k].shape[d]])],
                              ts[1].names)

\* t.rename(None)
Unnamed(t) == Lift1(t, Tensor(t.shape))

\* the inputs mapping of a forward call: the field names it holds, each bound to a
\* tensor of shape (B, 1) named ("B", "N")
ForwardInputs == [keys : SUBSET FieldNames, batch : 1..MaxBatch, named : BOOLEAN]

InputTensor(inputs, name) == NamedTensor(<<inputs.batch, 1>>, <<"B", "N">>)

\* what an embedding module returns for a batch: shape (B, N_i, E) with N_i the number
\* of fields it was given, carrying the names ("B", "N", "E") when the module names its output
Embedded(entry, inputs) ==
    IF inputs.named
    THEN NamedTensor(<<inputs.batch, Len(entry.names), entry.length>>, <<"B", "N", "E">>)
    ELSE Tensor(<<inputs.batch, Len(entry.names), entry.length>>)

\* if embedding.__class__.__name__ == "ConcatInputs", with the test never passing
UsesMapping_Never(entry) == FALSE

\* if embedding.__class__.__name__ == "ConcatInputs": the module is handed a mapping
UsesMapping(entry) == entry.cls = "ConcatInputs"

\* the arguments built for one schema entry, or the exception raised while building them
EntryArgs(entry, inputs) ==
    IF UsesMapping(entry)
    THEN IF \E k \in 1..Len(entry.names) : entry.names[k] \notin inputs.keys
         THEN [exc |-> "KeyError", kind |-> "none", names |-> <<>>, shape |-> <<>>, second |-> <<>>]
         ELSE [exc |-> "none", kind |-> "dict", names |-> entry.names, shape |-> <<>>,
               second |-> <<>>]
    ELSE IF \E k \in 1..Len(entry.names) : entry.names[k] \notin inputs.keys
         THEN [exc |-> "KeyError", kind |-> "none", names |-> <<>>, shape |-> <<>>, second |-> <<>>]
         ELSE LET inp_val == Unnamed(Cat([k \in 1..Len(entry.names) |->
                                             InputTensor(inputs, entry.names[k])], "N"))
              IN  IF entry.cls = "SequenceIndicesEmbedding"
                  THEN IF entry.extra = <<>>
                       THEN [exc |-> "IndexError", kind |-> "none", names |-> <<>>,
                             shape |-> <<>>, second |-> <<>>]
                       ELSE IF entry.extra[1] \notin inputs.keys
                       THEN [exc |-> "KeyError", kind |-> "none", names |-> <<>>,
                             shape |-> <<>>, second |-> <<>>]
                       ELSE [exc |-> "none", kind |-> "tensor", names |-> entry.names,
                             shape |-> inp_val.shape, second |-> <<entry.extra[1]>>]
                  ELSE [exc |-> "none", kind |-> "tensor", names |-> entry.names,
                        shape |-> inp_val.shape, second |-> <<>>]

\* the loop over self.schema: the calls made, the outputs collected, the exception raised
RECURSIVE ForwardLoop(_, _, _)
ForwardLoop(entries, inputs, acc) ==
    IF entries = <<>> THEN acc
    ELSE LET entry == Head(entries)
             args  == EntryArgs(entry, inputs)
         IN  IF args.exc # "none"
             THEN [acc EXCEPT !.exc = args.exc]
             ELSE ForwardLoop(Tail(entries), inputs,
                    [acc EXCEPT !.calls = Append(@, [module |-> entry.module, args |-> args]),
                                !.outputs = Append(@, Embedded(entry, inputs))])

\* outputs = torch.cat(outputs, dim="E")
StackOutputs(outputs) == Cat(outputs, "E")

\* StackedInputs.forward
StackedForward(schema, inputs) ==
    LET run == ForwardLoop(schema, inputs, [calls |-> <<>>, outputs |-> <<>>, exc |-> "none"])
    IN  [calls |-> run.calls,
         value |-> IF run.exc # "none" THEN Raise(run.exc) ELSE StackOutputs(run.outputs)]

\* a call of forward on the constructed object
StackedForwardCall ==
    /\ stacked.pc = "ready"
    /\ stacked_ret.op = "none"
    /\ \E inputs \in ForwardInputs :
          stacked_ret' = [op |-> "forward", idx |-> inputs,
                          out |-> StackedForward(stacked.schema, inputs)]
    /\ UNCHANGED stacked
    /\ StackedOnly

NoStackedCall == [op |-> "none", idx |-> <<>>, out |-> <<>>]

-----------------------------------------------------------------------------
(* BilinearNetworkLayer *)

MaxSize == 2
MaxLayers == 2

OptSizes == {None} \cup { Some(v) : v \in 1..MaxSize }

BilinearArgs ==
    [num_layers : 0..MaxLayers, embed_size : OptSizes, num_fields : OptSizes,
     inputs_size : OptSizes]

BilinearNew(args) ==
    [pc |-> "new", args |-> args, inputs_size |-> None, model |-> <<>>, exc |-> "none",
     ret |-> NoValue]

\* the sizing scheme chosen by the if / elif / else of __init__:
\* a resolved inputs_size, or None when ValueError is raised
ResolveInputsSize_Strict(embed_size, num_fields, inputs_size) ==
    IF IsNone(inputs_size) /\ ~IsNone(embed_size) /\ ~IsNone(num_fields)
    THEN Some(Val(embed_size) * Val(num_fields))
    ELSE IF ~IsNone(inputs_size) /\ (IsNone(embed_size) /\ IsNone(num_fields))
    THEN inputs_size
    ELSE None

ResolveInputsSize(embed_size, num_fields, inputs_size) ==
    IF IsNone(inputs_size) /\ ~IsNone(embed_size) /\ ~IsNone(num_fields)
    THEN Some(Val(embed_size) * Val(num_fields))
    ELSE IF ~IsNone(inputs_size) /\ (IsNone(embed_size) \/ IsNone(num_fields))
    THEN inputs_size
    ELSE None

\* BilinearNetworkLayer.__init__
BilinearConstructed(b) ==
    LET size == ResolveInputsSize(b.args.embed_size, b.args.num_fields, b.args.inputs_size)
    IN  IF IsNone(size)
        THEN [b EXCEPT !.pc = "raised", !.exc = "ValueError"]
        ELSE [b EXCEPT !.pc = "ready", !.inputs_size = size,
                       !.model = [k \in 1..b.args.num_layers |->
                                    <<Val(size), Val(size), Val(size)>>]]

BilinearInit ==
    /\ bilinear.pc = "new"
    /\ bilinear' = BilinearConstructed(bilinear)
    /\ BilinearOnly

\* emb_inputs.view(batch_size, -1) of a (B, N, E) tensor
Flatten(t) == Tensor(<<t.shape[1], t.shape[2] * t.shape[3]>>)

\* nn.Bilinear(in1, in2, out)(x1, x2)
BilinearApply(layer, x1, x2) ==
    Lift2(x1, x2,
      IF x1.shape[2] # layer[1] \/ x2.shape[2] # layer[2] \/ x1.shape[1] # x2.shape[1]
      THEN Raise("RuntimeError")
      ELSE Tensor(<<x1.shape[1], layer[3]>>))

\* the loop over self.model: outputs = layer(emb_inputs, outputs) + emb_inputs
RECURSIVE BilinearLoop(_, _, _)
BilinearLoop(layers, emb_inputs, outputs) ==
    IF layers = <<>> THEN outputs
    ELSE BilinearLoop(Tail(layers), emb_inputs,
                      TAdd(BilinearApply(Head(layers), emb_inputs, outputs), emb_inputs))

\* BilinearNetworkLayer.forward
BilinearForward(b, emb_inputs) ==
    LET flat == Flatten(emb_inputs)
    IN  BilinearLoop(b.model, flat, flat)

BilinearForwardCall ==
    /\ bilinear.pc = "ready"
    /\ \E bsz \in 1..MaxBatch, n \in 1..MaxSize, e \in 1..MaxSize :
          bilinear' = [bilinear EXCEPT !.ret = BilinearForward(bilinear, Tensor(<<bsz, n, e>>))]
    /\ BilinearOnly

-----------------------------------------------------------------------------
(* Trainer *)

MaxVerboses == 2
MaxEpochs == 2
MaxBatches == 2
MaxLogStep == 2
MaxIterate == 2

TrainerArgs ==
    [verboses : 0..MaxVerboses, has_regularizer : BOOLEAN, epochs : 0..MaxEpochs,
     log_step : 1..MaxLogStep]

TrainerNew(args) ==
    [pc |-> "new", verboses |-> args.verboses, has_regularizer |-> args.has_regularizer,
     epochs |-> args.epochs, log_step |-> args.log_step,
     has_logger |-> FALSE, has_writer |-> FALSE,
     logger_log |-> <<>>, writer_log |-> <<>>, stdout |-> <<>>,
     grads |-> "none", params_version |-> 0, n_iterate |-> 0, exc |-> "none"]

\* if verboses >= 1, with the test always passing
LoggerEnabled_Always(verboses) == TRUE

\* if verboses >= 1: the streaming logger is initialised
LoggerEnabled(verboses) == verboses >= 1

\* if verboses >= 2: the tensorboard summary writer is initialised
WriterEnabled(verboses) == verboses >= 2

\* Trainer.__init__
TrainerConstructed(t) ==
    LET t1 == IF LoggerEnabled(t.verboses)
              THEN [t EXCEPT !.has_logger = TRUE,
                             !.logger_log = Append(@, "logger have been initialized.")]
              ELSE t
        t2 == IF WriterEnabled(t.verboses)
              THEN IF t1.has_logger
                   THEN [t1 EXCEPT !.has_writer = TRUE,
                                   !.logger_log = Append(@, "tensorboard summary writter have been created")]
                   ELSE [t1 EXCEPT !.has_writer = TRUE, !.exc = "AttributeError"]
              ELSE t1
    IN  IF t2.exc # "none"
        THEN [t2 EXCEPT !.pc = "raised"]
        ELSE [t2 EXCEPT !.pc = "ready", !.stdout = Append(@, "describe")]

TrainerInit ==
    /\ trainer.pc = "new"
    /\ trainer' = TrainerConstructed(trainer)
    /\ UNCHANGED <<iter, fit>>
    /\ TrainerOnly

\* Trainer._add_graph: raises before anything else
AddGraph ==
    /\ trainer.pc = "ready"
    /\ iter.pc = "idle"
    /\ trainer.exc = "none"
    /\ trainer' = [trainer EXCEPT !.exc = "NotImplementedError"]
    /\ UNCHANGED <<iter, fit>>
    /\ TrainerOnly

\* the statements of Trainer._iterate in program order, backward and step exchanged
IterateNext_StepFirst(pc, has_regularizer) ==
    CASE pc = "zero_grad" -> "embeddings"
      [] pc = "embeddings" -> "model"
      [] pc = "model"      -> "loss"
      [] pc = "loss"       -> IF has_regularizer THEN "regularizer" ELSE "step"
      [] pc = "regularizer" -> "step"
      [] pc = "step"       -> "backward"
      [] pc = "backward"   -> "return"
      [] OTHER             -> "idle"

\* the statements of Trainer._iterate in program order
IterateNext(pc, has_regularizer) ==
    CASE pc = "zero_grad" -> "embeddings"
      [] pc = "embeddings" -> "model"
      [] pc = "model"      -> "loss"
      [] pc = "loss"       -> IF has_regularizer THEN "regularizer" ELSE "backward"
      [] pc = "regularizer" -> "backward"
      [] pc = "backward"   -> "step"
      [] pc = "step"       -> "return"
      [] OTHER             -> "idle"

IterIdle == [pc |-> "idle", trace |-> <<>>, batch |-> 0]

Advance(event) ==
    iter' = [iter EXCEPT !.pc = IterateNext(iter.pc, trainer.has_regularizer),
                         !.trace = Append(@, event)]

\* a call of Trainer._iterate(batch_inputs, labels)
IterateCall ==
    /\ trainer.pc = "ready"
    /\ iter.pc = "idle"
    /\ trainer.n_iterate < MaxIterate
    /\ \E b \in 1..MaxBatches : iter' = [pc |-> "zero_grad", trace |-> <<>>, batch |-> b]
    /\ UNCHANGED <<trainer, fit>>
    /\ TrainerOnly

\* self.optimizer.zero_grad()
ZeroGrad ==
    /\ iter.pc = "zero_grad"
    /\ Advance("zero_grad")
    /\ trainer' = [trainer EXCEPT !.grads = "zero"]
    /\ UNCHANGED fit
    /\ TrainerOnly

\* embed_inputs = self.embeddings(batch_inputs)
EmbeddingsForward ==
    /\ iter.pc = "embeddings"
    /\ Advance("embeddings")
    /\ UNCHANGED <<trainer, fit>>
    /\ TrainerOnly

\* outputs = self.model(**embed_inputs)
ModelForward ==
    /\ iter.pc = "model"
    /\ Advance("model")
    /\ UNCHANGED <<trainer, fit>>
    /\ TrainerOnly

\* loss = self.loss(outputs, labels)
ComputeLoss ==
    /\ iter.pc = "loss"
    /\ Advance("loss")
    /\ UNCHANGED <<trainer, fit>>
    /\ TrainerOnly

\* reg_loss = self.regularizer(named_params); loss += reg_loss
AddRegLoss ==
    /\ iter.pc = "regularizer"
    /\ Advance("regularizer")
    /\ trainer' = [trainer EXCEPT !.stdout = Append(@, "named_params")]
    /\ UNCHANGED fit
    /\ TrainerOnly

\* loss.backward()
Backward ==
    /\ iter.pc = "backward"
    /\ Advance("backward")
    /\ trainer' = [trainer EXCEPT !.grads = "computed"]
    /\ UNCHANGED fit
    /\ TrainerOnly

\* self.optimizer.step()
OptimizerStep ==
    /\ iter.pc = "step"
    /\ Advance("step")
    /\ trainer' = [trainer EXCEPT !.params_version = @ + 1]
    /\ UNCHANGED fit
    /\ TrainerOnly

\* return loss
IterateReturn ==
    /\ iter.pc = "return"
    /\ iter' = [iter EXCEPT !.pc = "idle"]
    /\ trainer' = [trainer EXCEPT !.n_iterate = @ + 1]
    /\ UNCHANGED fit
    /\ TrainerOnly

\* names bound in the frame of fit when line 163 runs: the parameters and global_step
FitBoundNames == {"self", "dataloader", "global_step"}

FitNew(batches) ==
    [pc |-> "none", num_batches |-> batches, global_step |-> 0, iterations |-> <<>>,
     step_logs |-> <<>>, exc |-> "none"]

\* Trainer.fit: num_batch = len(batch_inputs) reads a local that is bound only by the
\* for statement further down; for epoch in self.epochs iterates over an int.
\* step_logs holds, per step-average log written, the number of batch losses that
\* steps_loss held; no statement writing one is reached
FitRun(f, t) ==
    IF "batch_inputs" \notin FitBoundNames
    THEN [f EXCEPT !.pc = "raised", !.exc = "UnboundLocalError", !.global_step = 0]
    ELSE [f EXCEPT !.pc = "raised", !.exc = "TypeError", !.global_step = 0]

Fit ==
    /\ trainer.pc = "ready"
    /\ iter.pc = "idle"
    /\ fit.pc = "none"
    /\ fit' = FitRun(fit, trainer)
    /\ UNCHANGED <<trainer, iter>>
    /\ TrainerOnly

-----------------------------------------------------------------------------
(* Specifications: one per component, the other components idle *)

AFMIdle == afm = AFMNew([embed_size |-> 1, num_fields |-> 1, attn_size |-> 1])
              /\ afm_ret = NoCall /\ model_ret = NoCall
StackedIdle == stacked = StackedNew(<<>>) /\ stacked_ret = NoStackedCall
BilinearIdle == bilinear = BilinearNew([num_layers |-> 0, embed_size |-> None,
                                        num_fields |-> None, inputs_size |-> None])
TrainerIdle == /\ trainer = TrainerNew([verboses |-> 0, has_regularizer |-> FALSE,
                                        epochs |-> 0, log_step |-> 1])
               /\ iter = IterIdle
               /\ fit = FitNew(0)

InitAFM ==
    /\ \E args \in AFMArgs : afm = AFMNew(args)
    /\ afm_ret = NoCall /\ model_ret = NoCall
    /\ StackedIdle /\ BilinearIdle /\ TrainerIdle

NextAFM ==
    \/ AFMLayerInit
    \/ AFMModelInit
    \/ AFMLayerForwardCall
    \/ AFMModelForwardCall

SpecAFM == InitAFM /\ [][NextAFM]_vars

InitStacked ==
    /\ \E schema \in Schemas : stacked = StackedNew(schema)
    /\ stacked_ret = NoStackedCall
    /\ AFMIdle /\ BilinearIdle /\ TrainerIdle

NextStacked ==
    \/ StackedInit
    \/ StackedGetItem
    \/ StackedForwardCall

SpecStacked == InitStacked /\ [][NextStacked]_vars

InitBilinear ==
    /\ \E args \in BilinearArgs : bilinear = BilinearNew(args)
    /\ AFMIdle /\ StackedIdle /\ TrainerIdle

NextBilinear ==
    \/ BilinearInit
    \/ BilinearForwardCall

SpecBilinear == InitBilinear /\ [][NextBilinear]_vars

InitTrainer ==
    /\ \E args \in TrainerArgs : trainer = TrainerNew(args)
    /\ iter = IterIdle
    /\ \E b \in 0..MaxBatches : fit = FitNew(b)
    /\ AFMIdle /\ StackedIdle /\ BilinearIdle

NextTrainer ==
    \/ TrainerInit
    \/ AddGraph
    \/ IterateCall
    \/ ZeroGrad
    \/ EmbeddingsForward
    \/ ModelForward
    \/ ComputeLoss
    \/ AddRegLoss
    \/ Backward
    \/ OptimizerStep
    \/ IterateReturn
    \/ Fit

SpecTrainer == InitTrainer /\ [][NextTrainer]_vars

-----------------------------------------------------------------------------
(* Properties of the attentional factorization machine layer and model *)

Choose2(n) == (n * (n - 1)) \div 2

\* C1: once the layer is constructed for N fields, row_idx and col_idx have the same
\* length C(N,2), their k-th pair is the k-th pair (i, j), 0 <= i < j <= N-1, in
\* lexicographic order, every such pair occurs exactly once, N = 4 gives
\* (0,1)(0,2)(0,3)(1,2)(1,3)(2,3) and N = 1 gives the empty lists.
C1_PairIndexLexicographic ==
    afm.pc = "ready" =>
      LET n == afm.num_fields
          r == afm.row_idx
          c == afm.col_idx
      IN  /\ Len(r) = Len(c)
          /\ Len(r) = Choose2(n)
          /\ \A k \in 1..Len(r) : 0 <= r[k] /\ r[k] < c[k] /\ c[k] <= n - 1
          /\ \A k \in 1..(Len(r) - 1) :
                r[k] < r[k + 1] \/ (r[k] = r[k + 1] /\ c[k] < c[k + 1])
          /\ \A i \in 0..(n - 1), j \in 0..(n - 1) :
                i < j => Cardinality({k \in 1..Len(r) : r[k] = i /\ c[k] = j}) = 1
          /\ n = 4 => r = <<0, 0, 0, 1, 1, 2>> /\ c = <<1, 2, 3, 2, 3, 3>>
          /\ n = 1 => r = <<>> /\ c = <<>>

C1_Witness ==
    /\ afm.pc = "ready"
    /\ afm.num_fields = 4
    /\ afm.row_idx = <<0, 0, 0, 1, 1, 2>>
    /\ afm.col_idx = <<1, 2, 3, 2, 3, 3>>

\* the forward input has the shape (batch, N, E) the layer was constructed for
MatchesLayer(shape) ==
    /\ shape # <<>>
    /\ shape[2] = afm.num_fields
    /\ shape[3] = afm.embed_size

\* C2: forward of the layer on an input of shape (batch, N, E), N >= 2, returns a pair
\* of a tensor of shape (batch, 1, E) and attention weights of shape
\* (batch, C(N,2), 1); batch = 2, N = 3, E = 5 gives (2,1,5) and (2,3,1).
C2_LayerForwardShapes ==
    (MatchesLayer(afm_ret.in) /\ afm.num_fields >= 2) =>
        /\ afm_ret.out.kind = "tuple"
        /\ afm_ret.out.shape = <<afm_ret.in[1], 1, afm_ret.in[3]>>
        /\ afm_ret.out.second = <<afm_ret.in[1], Choose2(afm_ret.in[2]), 1>>
        /\ afm_ret.in = <<2, 3, 5>> =>
              afm_ret.out.shape = <<2, 1, 5>> /\ afm_ret.out.second = <<2, 3, 1>>

C2_Witness ==
    /\ afm.num_fields = 3
    /\ afm.embed_size = 5
    /\ afm_ret.in = <<2, 3, 5>>
    /\ afm_ret.out.kind = "tuple"
    /\ afm_ret.out.shape = <<2, 1, 5>>
    /\ afm_ret.out.second = <<2, 3, 1>>

\* C7: forward of the model on first_order of shape (batch, fields, 1) and second_order
\* of shape (batch, fields, E) returns, without raising, a tensor of shape (batch, 1).
C7_ModelForwardReturnsPrediction ==
    MatchesLayer(model_ret.in) =>
        /\ model_ret.out.kind = "tensor"
        /\ model_ret.out.shape = <<model_ret.in[1], 1>>

-----------------------------------------------------------------------------
(* Properties of StackedInputs *)

\* every module of the schema was called and returned its output
AllEmbedded == Len(stacked_ret.out.calls) = Len(stacked.schema)

\* C3: when every module of the schema returns a tensor of shape (batch, N_i, E),
\* forward returns a tensor of shape (batch, N_1 + ... + N_k, E).
C3_ForwardStacksFields ==
    (stacked_ret.op = "forward" /\ stacked_ret.idx.named /\ AllEmbedded) =>
        /\ stacked_ret.out.value.kind = "tensor"
        /\ stacked_ret.out.value.shape =
              << stacked_ret.idx.batch,
                 SumSeq([k \in 1..Len(stacked.schema) |-> Len(stacked.schema[k].names)]),
                 Val(stacked.length) >>

UniformLength(schema) == \A k \in 1..Len(schema) : schema[k].length = schema[1].length

\* C4: construction on a non-empty schema succeeds exactly when every entry's module
\* has the embedding width of the first entry's; otherwise it raises with the schema
\* unbound and no sub-module registered, and forward never runs on mixed widths.
C4_UniformWidthOrConstructionError ==
    /\ (stacked.pc # "new" /\ stacked.arg # <<>>) =>
          /\ (stacked.pc = "ready") <=> UniformLength(stacked.arg)
          /\ stacked.pc = "ready" =>
                stacked.schema = stacked.arg /\ Len(stacked.modules) = Len(stacked.arg)
          /\ stacked.pc = "raised" =>
                stacked.exc = "ValueError" /\ stacked.schema = <<>> /\ stacked.modules = <<>>
    /\ stacked_ret.op = "forward" => UniformLength(stacked.arg)

C4_Witness ==
    /\ stacked.pc = "raised"
    /\ stacked.exc = "ValueError"
    /\ Len(stacked.arg) = 2
    /\ stacked.arg[1].length # stacked.arg[2].length
    /\ stacked.modules = <<>>

\* positions of the schema entries whose field-name list holds the name
Hits(schema, name) == {k \in 1..Len(schema) : name \in Range(schema[k].names)}

\* the m-th smallest element of a set of positions
Nth(S, m) == CHOOSE k \in S : Cardinality({h \in S : h < k}) = m - 1

\* C6: __getitem__ leaves the schema as constructed; an integer position returns the
\* module of the entry at that position; a field name returns, in schema order, the
\* modules of exactly the entries whose field names hold it; an index that is neither
\* int, slice nor str raises an error.
C6_GetItemByIndexType ==
    stacked_ret.op = "getitem" =>
      LET idx == stacked_ret.idx
          out == stacked_ret.out
          sch == stacked.schema
      IN  /\ sch = stacked.arg
          /\ (idx.type = "int" /\ 0 <= idx.int /\ idx.int < Len(sch)) =>
                out.kind = "module" /\ out.mods = <<sch[idx.int + 1].module>>
          /\ idx.type = "str" =>
                /\ out.kind = "list"
                /\ Len(out.mods) = Cardinality(Hits(sch, idx.str))
                /\ \A m \in 1..Len(out.mods) :
                      out.mods[m] = sch[Nth(Hits(sch, idx.str), m)].module
          /\ idx.type \notin {"int", "slice", "str"} =>
                out.kind = "error" /\ out.exc = "ValueError"

C6_Witness ==
    /\ stacked_ret.op = "getitem"
    /\ stacked_ret.idx.type = "str"
    /\ stacked_ret.idx.str = "movieId"
    /\ Len(stacked.schema) = 2
    /\ stacked.schema[1].names = <<"userId">>
    /\ stacked.schema[2].names = <<"userId", "movieId">>
    /\ stacked_ret.out.mods = <<stacked.schema[2].module>>

-----------------------------------------------------------------------------
(* Properties of BilinearNetworkLayer *)

Given(x) == ~IsNone(x)

\* C5, as stated: construction succeeds exactly for (embed_size and num_fields given,
\* inputs_size omitted) or (inputs_size given, embed_size and num_fields both omitted);
\* anything else raises and builds no layers.
C5_ExactlyTwoSchemes ==
    bilinear.pc # "new" =>
      LET a == bilinear.args
      IN  /\ (bilinear.pc = "ready") <=>
                \/ (Given(a.embed_size) /\ Given(a.num_fields) /\ ~Given(a.inputs_size))
                \/ (Given(a.inputs_size) /\ ~Given(a.embed_size) /\ ~Given(a.num_fields))
          /\ bilinear.pc = "raised" => bilinear.exc = "ValueError" /\ bilinear.model = <<>>

\* C5, amended: construction succeeds exactly for (embed_size and num_fields given,
\* inputs_size omitted) or (inputs_size given and at least one of embed_size and
\* num_fields omitted); anything else raises ValueError and builds no layers.
C5_SchemesAccepted ==
    bilinear.pc # "new" =>
      LET a == bilinear.args
      IN  /\ (bilinear.pc = "ready") <=>
                \/ (Given(a.embed_size) /\ Given(a.num_fields) /\ ~Given(a.inputs_size))
                \/ (Given(a.inputs_size) /\ ~(Given(a.embed_size) /\ Given(a.num_fields)))
          /\ bilinear.pc = "ready" => Len(bilinear.model) = a.num_layers
          /\ bilinear.pc = "raised" => bilinear.exc = "ValueError" /\ bilinear.model = <<>>

C5_Witness ==
    /\ bilinear.pc = "ready"
    /\ Given(bilinear.args.inputs_size)
    /\ Given(bilinear.args.embed_size)
    /\ ~Given(bilinear.args.num_fields)
    /\ bilinear.inputs_size = bilinear.args.inputs_size
    /\ Len(bilinear.model) = 2

-----------------------------------------------------------------------------
(* Properties of the Trainer *)

ExpectedTrace ==
    IF trainer.has_regularizer
    THEN <<"zero_grad", "embeddings", "model", "loss", "regularizer", "backward", "step">>
    ELSE <<"zero_grad", "embeddings", "model", "loss", "backward", "step">>

\* C8: an iteration runs zero-grad, the input stacker, the model, the loss, the
\* regularization penalty (only with a regularizer), backward and the optimizer step,
\* once each and in that order; parameters are updated once per iteration, after
\* backward, and gradients stay as zeroed until backward.
C8_IterateStepOrder ==
    /\ Len(iter.trace) <= Len(ExpectedTrace)
    /\ iter.trace = SubSeq(ExpectedTrace, 1, Len(iter.trace))
    /\ iter.pc = "return" => iter.trace = ExpectedTrace
    /\ (iter.pc = "idle" /\ trainer.n_iterate > 0) => iter.trace = ExpectedTrace
    /\ trainer.params_version =
          trainer.n_iterate + (IF iter.pc = "return" THEN 1 ELSE 0)
    /\ iter.pc \in {"embeddings", "model", "loss", "regularizer", "backward"} =>
          trainer.grads = "zero"
    /\ iter.pc \in {"step", "return"} => trainer.grads = "computed"

C8_Witness ==
    /\ iter.pc = "return"
    /\ trainer.has_regularizer
    /\ trainer.n_iterate = 1
    /\ trainer.params_version = 2
    /\ iter.trace =
         <<"zero_grad", "embeddings", "model", "loss", "regularizer", "backward", "step">>

\* C9: fit on a dataloader of B batches with K epochs terminates after exactly K * B
\* training iterations and global_step ends at K * B.
C9_FitRunsEveryBatch ==
    fit.pc # "none" =>
        /\ fit.pc = "returned"
        /\ Len(fit.iterations) = trainer.epochs * fit.num_batches
        /\ fit.global_step = trainer.epochs * fit.num_batches

\* C10: with verbosity 0 neither the console logger nor the metrics writer is created
\* or written; with verbosity 1 only the console logger is; the metrics writer is
\* created and written only with verbosity 2 or more, and then the logger is written too.
C10_OutputGatedByVerbosity ==
    /\ trainer.verboses = 0 =>
          /\ ~trainer.has_logger /\ ~trainer.has_writer
          /\ trainer.logger_log = <<>> /\ trainer.writer_log = <<>>
    /\ trainer.verboses = 1 => ~trainer.has_writer /\ trainer.writer_log = <<>>
    /\ (trainer.has_writer \/ trainer.writer_log # <<>>) => trainer.verboses >= 2
    /\ (trainer.has_logger \/ trainer.logger_log # <<>>) => trainer.verboses >= 1
    /\ (trainer.pc = "ready" /\ trainer.verboses >= 1) =>
          trainer.has_logger /\ trainer.logger_log # <<>>
    /\ (trainer.pc = "ready" /\ trainer.verboses >= 2) => trainer.has_writer

C10_Witness ==
    /\ trainer.pc = "ready"
    /\ trainer.verboses = 2
    /\ trainer.has_writer
    /\ Len(trainer.logger_log) = 2
    /\ trainer.writer_log = <<>>
    /\ trainer.n_iterate = 1
    /\ fit.pc = "raised"

-----------------------------------------------------------------------------
(* Properties of StackedInputs.forward's dispatch and of slice lookup *)

\* the names an entry reads from the inputs mapping
NamesRead(entry) ==
    Range(entry.names) \cup
      (IF entry.cls = "SequenceIndicesEmbedding" THEN Range(entry.extra) ELSE {})

\* the inputs mapping holds every name the schema refers to
HoldsAllNames(schema, keys) == \A k \in 1..Len(schema) : NamesRead(schema[k]) \subseteq keys

\* C11: on inputs holding every name of the schema, forward calls the module of every
\* entry exactly once, in schema order; a ConcatInputs module gets one argument, the
\* mapping restricted to the entry's field names; any other module gets the entry's
\* named tensors concatenated along the field dimension in field-list order; a
\* SequenceIndicesEmbedding module gets as second argument the input named by the
\* first extra-argument name, and no other module gets a second argument.
C11_DispatchByModuleKind ==
    (stacked_ret.op = "forward" /\ HoldsAllNames(stacked.schema, stacked_ret.idx.keys)) =>
      LET sch   == stacked.schema
          calls == stacked_ret.out.calls
      IN  /\ Len(calls) = Len(sch)
          /\ \A k \in 1..Len(sch) :
                /\ calls[k].module = sch[k].module
                /\ calls[k].args.names = sch[k].names
                /\ sch[k].cls = "ConcatInputs" =>
                      calls[k].args.kind = "dict" /\ calls[k].args.second = <<>>
                /\ sch[k].cls # "ConcatInputs" =>
                      /\ calls[k].args.kind = "tensor"
                      /\ calls[k].args.shape = <<stacked_ret.idx.batch, Len(sch[k].names)>>
                /\ sch[k].cls = "SequenceIndicesEmbedding" =>
                      calls[k].args.second = <<sch[k].extra[1]>>
                /\ sch[k].cls # "SequenceIndicesEmbedding" => calls[k].args.second = <<>>

C11_Witness ==
    /\ stacked_ret.op = "forward"
    /\ Len(stacked.schema) = 2
    /\ stacked.schema[1].cls = "ConcatInputs"
    /\ stacked.schema[2].cls = "SequenceIndicesEmbedding"
    /\ Len(stacked_ret.out.calls) = 2
    /\ stacked_ret.out.calls[1].args.kind = "dict"
    /\ stacked_ret.out.calls[1].args.names = <<"userId", "movieId">>
    /\ stacked_ret.out.calls[2].args.kind = "tensor"
    /\ stacked_ret.out.calls[2].args.second = <<"seqLen">>

\* the indices Python's list slicing visits for seq[start:stop:step], step # 0,
\* on a list of length n (slice.indices followed by range)
SliceIndices(n, start, stop, step) ==
    LET st    == IF IsNone(step) THEN 1 ELSE Val(step)
        lower == IF st > 0 THEN 0 ELSE -1
        upper == IF st > 0 THEN n ELSE n - 1
        Max(a, b) == IF a > b THEN a ELSE b
        Min(a, b) == IF a < b THEN a ELSE b
        clamp(v) == IF v < 0 THEN Max(v + n, lower) ELSE Min(v, upper)
        first == IF IsNone(start) THEN (IF st > 0 THEN lower ELSE upper) ELSE clamp(Val(start))
        last  == IF IsNone(stop) THEN (IF st > 0 THEN upper ELSE lower) ELSE clamp(Val(stop))
    IN  PyRange(first, last, st)

\* C12: for every slice with a non-zero step, __getitem__ returns without raising the
\* modules, in order, of the entries that the slice selects from the schema list.
C12_SliceMatchesListSlicing ==
    (/\ stacked_ret.op = "getitem"
     /\ stacked_ret.idx.type = "slice"
     /\ stacked_ret.idx.step # Some(0)) =>
      LET idx == stacked_ret.idx
          sch == stacked.schema
          sel == SliceIndices(Len(sch), idx.start, idx.stop, idx.step)
      IN  /\ stacked_ret.out.kind = "list"
          /\ stacked_ret.out.mods = [k \in 1..Len(sel) |-> sch[sel[k] + 1].module]

-----------------------------------------------------------------------------
(* Step-average logging of Trainer.fit *)

====
